---- MODULE Spec2Model ----
(***************************************************************************)
(* A model of the two B-tree implementations of the catalog crate:         *)
(*   - memtree::BTree, whose nodes live in a caller-supplied byte buffer   *)
(*     managed by a free-list heap (src/src/memtree.rs, memtree/context.rs)*)
(*   - tree::BTree, the in-memory tree (src/src/tree.rs).                  *)
(* Sizes are counted in units of 8 bytes for the instantiation             *)
(* BTree<i32, i32> used by the tests (src/src/lib.rs:15-16).               *)
(***************************************************************************)
EXTENDS Integers, Sequences, FiniteSets, TLC

(***************************************************************************)
(* Bounds of the model.                                                    *)
(***************************************************************************)
MemMaxKey == 2
MaxVal == 2
SmallHeapUnits == 13
BigHeapUnits == 22
TreeMaxKey == 4
ScnKeys == 11
ScnMinLeft == 8
ScnDepth == 3
FindMaxKey == 4
PairHeapUnits == 64
DeepKeys == 13
DeepMinLeft == 11
MaxDepth == 1

MemKeys == 0..MemMaxKey
Vals == 1..MaxVal
TreeKeys == 0..TreeMaxKey
ScnKeySet == 0..(ScnKeys - 1)
DeepKeySet == 0..(DeepKeys - 1)
TKeys == TreeKeys \cup ScnKeySet \cup DeepKeySet

(***************************************************************************)
(* Option<T>, as the handlers return it.                                   *)
(***************************************************************************)
None == [some |-> FALSE, v |-> 0]
Some(x) == [some |-> TRUE, v |-> x]

\* a map, as a function on the keys it holds
EmptyMap == <<>>
MapGet(m, k) == IF k \in DOMAIN m THEN Some(m[k]) ELSE None
MapPut(m, k, v) == [j \in (DOMAIN m) \cup {k} |-> IF j = k THEN v ELSE m[j]]
MapDel(m, k) == [j \in (DOMAIN m) \ {k} |-> m[j]]

\* the outcome of a call: returned a value, or panicked
Returned(x) == [ok |-> TRUE, val |-> x]
Panicked == [ok |-> FALSE, val |-> None]

\* the answer an observation recorded for key j
ObsGet(o, j) == IF j \in o.panics THEN Panicked ELSE Returned(MapGet(o.held, j))

Min(S) == CHOOSE x \in S : \A y \in S : x <= y
Max(S) == CHOOSE x \in S : \A y \in S : x >= y

(***************************************************************************)
(* Layout, in 8-byte units.                                                *)
(***************************************************************************)
\* size_of::<NodeHeader>(): tag (u8) and len (usize), repr(C)
HeaderUnits == 2
\* size_of::<BranchEntry<i32>>(): interval (i32) and node_id (usize)
BranchEntryUnits == 2
\* size_of::<LeafEntry<i32, i32>>(): key and value
LeafEntryUnits == 1
\* size_of::<LockedHeap>(), which BNodeContext::new allocates inside the heap
LockedHeapUnits == 7
\* a null pointer returned by the allocator
NullPtr == 0 - 1

branch_layout(len) == HeaderUnits + len * BranchEntryUnits
leaf_layout(len) == HeaderUnits + len * LeafEntryUnits

(***************************************************************************)
(* State.                                                                  *)
(*   mHeapSize  length of the buffer                                       *)
(*   mFree      the free list of the heap: the free units                  *)
(*   mNodes     the nodes written in the buffer, by offset: header (tag,   *)
(*              len), entries, and asize, the size the node was allocated  *)
(*              with (kept by nobody in the program)                       *)
(*   mRoot      BTree.root of the handle                                   *)
(*   mRootRecord the root record of the buffer that load reads             *)
(*   mModel     the map the calls made so far describe                     *)
(*   mLast      the last call and its outcome                              *)
(***************************************************************************)
VARIABLES mHeapSize, mFree, mNodes, mRoot, mRootRecord, mModel, mLast

(***************************************************************************)
(*   tRoot      BTree.root of the in-memory tree                           *)
(*   tDebug     whether the build has debug_assertions                     *)
(*   tModel     the map the calls made so far describe                     *)
(*   tLast      the last call and its outcome                              *)
(*              (preRoot: the tree an insert or remove was called on)      *)
(***************************************************************************)
VARIABLES tRoot, tDebug, tModel, tLast

tvars == <<tRoot, tDebug, tModel, tLast>>

mvars == <<mHeapSize, mFree, mNodes, mRoot, mRootRecord, mModel, mLast>>

(***************************************************************************)
(*   fEntries   the entries of one buffer-backed branch: fEntries[1] is the *)
(*              sentinel entry, the others carry the real separators        *)
(*   fKey       the key a child is selected for                             *)
(*   fOut       the indices the two find_idx_from_interval functions return *)
(***************************************************************************)
VARIABLES fEntries, fKey, fOut

fvars == <<fEntries, fKey, fOut>>

(***************************************************************************)
(* The heap: first fit at the lowest address (linked_list_allocator).      *)
(* A heap value h is the free list, the nodes written in the buffer, and   *)
(* log, the steps the operation under way has taken on the buffer and the  *)
(* handle, in order:                                                       *)
(*   alloc   node id allocated with size units                             *)
(*   write   the entries of node id initialised                            *)
(*   ref     the child identifier in branch at set to id, in place of old  *)
(*   root    the handle's root set to id, in place of old                  *)
(*   free    node id freed with size units (asize: the size it was         *)
(*           allocated with; at: 1 if id was allocated at the time, else 0) *)
(*   len     header.len of node id changed in place to size                *)
(***************************************************************************)
Event(ev, id, size, asize, at) ==
  [ev |-> ev, id |-> id, size |-> size, asize |-> asize, at |-> at, old |-> 0]

Replaced(ev, id, at, old) ==
  [ev |-> ev, id |-> id, size |-> 0, asize |-> 0, at |-> at, old |-> old]

Logged(h, e) == [h EXCEPT !.log = Append(@, e)]

HeapAlloc(free, size) ==
  LET fits == {a \in free : \A i \in 0..(size - 1) : (a + i) \in free}
  IN IF fits = {} THEN NullPtr ELSE Min(fits)

HeapDealloc(free, ptr, size) == free \cup (ptr..(ptr + size - 1))

\* allocation of a node: the header is written, the entries are not yet
AllocNode(h, tag, len, size) ==
  LET ptr == HeapAlloc(h.free, size)
  IN IF ptr = NullPtr
     THEN [ok |-> FALSE, id |-> NullPtr, h |-> h]
     ELSE [ok |-> TRUE, id |-> ptr,
           h |-> [free |-> h.free \ (ptr..(ptr + size - 1)),
                  nodes |-> [o \in (DOMAIN h.nodes) \cup {ptr} |->
                               IF o = ptr
                               THEN [tag |-> tag, len |-> len, children |-> <<>>,
                                     asize |-> size]
                               ELSE h.nodes[o]],
                  log |-> Append(h.log, Event("alloc", ptr, size, size, 0))]]

alloc_branch(h, len) == AllocNode(h, "Branch", len, branch_layout(len))

alloc_leaf(h, len) == AllocNode(h, "Leaf", len, leaf_layout(len))

\* the caller's initialisation of the entries of a node just allocated
WriteChildren(h, id, children) ==
  Logged([h EXCEPT !.nodes[id].children = children], Event("write", id, 0, 0, 0))

\* free reads the header at node_id and deallocates the layout it names
\* (a node_id that is not allocated has no header to go by: the heap is left
\* as it is and the step is logged)
free(h, node_id) ==
  IF node_id \notin DOMAIN h.nodes
  THEN Logged(h, Event("free", node_id, 0, 0, 0))
  ELSE LET header == h.nodes[node_id]
           size == IF header.tag = "Branch" THEN branch_layout(header.len)
                   ELSE leaf_layout(header.len)
       IN [free |-> HeapDealloc(h.free, node_id, size),
           nodes |-> [o \in (DOMAIN h.nodes) \ {node_id} |-> h.nodes[o]],
           log |-> Append(h.log, Event("free", node_id, size, header.asize, 1))]

(***************************************************************************)
(* Searching.                                                              *)
(***************************************************************************)
\* slice::binary_search_by over the keys of a sorted sequence: the 0-based
\* index of key, or the 0-based insertion point
RECURSIVE BinarySearch(_, _, _, _)
BinarySearch(keys, key, lo, hi) ==
  IF lo >= hi THEN [found |-> FALSE, idx |-> lo]
  ELSE LET mid == lo + ((hi - lo) \div 2)
       IN IF keys[mid + 1] = key THEN [found |-> TRUE, idx |-> mid]
          ELSE IF keys[mid + 1] < key THEN BinarySearch(keys, key, mid + 1, hi)
          ELSE BinarySearch(keys, key, lo, mid)

\* a search that gives the front of the leaf as the insertion point
LeafSearch_front(children, key) ==
  LET s == BinarySearch([i \in 1..Len(children) |-> children[i].key], key, 0,
                        Len(children))
  IN [found |-> s.found, idx |-> IF s.found THEN s.idx ELSE 0]

\* leaf.children.binary_search_by(|entry| entry.key.cmp(key))
LeafSearch(children, key) ==
  BinarySearch([i \in 1..Len(children) |-> children[i].key], key, 0, Len(children))

\* entries[a..b) of a 0-based slice
Slice(s, a, b) == [i \in 1..(b - a) |-> s[a + i]]

RECURSIVE memtree_find_idx_from_interval_recursive(_, _)
memtree_find_idx_from_interval_recursive(entries, key) ==
  IF Len(entries) = 0 THEN 0
  ELSE LET halfway == Len(entries) \div 2
           sep == entries[halfway + 1].interval
       IN IF key < sep
          THEN memtree_find_idx_from_interval_recursive(Slice(entries, 0, halfway), key)
          ELSE IF key = sep THEN halfway + 1
          ELSE halfway + 1 + memtree_find_idx_from_interval_recursive(
                                Slice(entries, halfway + 1, Len(entries)), key)

\* the search over all the entries, the first one too
memtree_find_idx_from_interval_whole(entries, key) ==
  IF Len(entries) = 0 THEN [ok |-> FALSE, idx |-> 0]
  ELSE [ok |-> TRUE,
        idx |-> memtree_find_idx_from_interval_recursive(entries, key)]

\* &entries[1..] panics on an empty slice
memtree_find_idx_from_interval(entries, key) ==
  IF Len(entries) = 0 THEN [ok |-> FALSE, idx |-> 0]
  ELSE [ok |-> TRUE,
        idx |-> memtree_find_idx_from_interval_recursive(
                  Slice(entries, 1, Len(entries)), key)]

RECURSIVE memtree_get(_, _, _)
memtree_get(nodes, node_id, key) ==
  LET node == nodes[node_id]
  IN IF node.tag = "Branch"
     THEN LET f == memtree_find_idx_from_interval(node.children, key)
          IN IF ~f.ok THEN Panicked
             ELSE IF f.idx >= Len(node.children) THEN Returned(None)
             ELSE memtree_get(nodes, node.children[f.idx + 1].node_id, key)
     ELSE LET s == LeafSearch(node.children, key)
          IN IF s.found THEN Returned(Some(node.children[s.idx + 1].value))
             ELSE Returned(None)

(***************************************************************************)
(* insert                                                                  *)
(***************************************************************************)
InsertAt(s, i, e) ==
  [j \in 1..(Len(s) + 1) |-> IF j <= i THEN s[j] ELSE IF j = i + 1 THEN e ELSE s[j - 1]]

RemoveAt(s, i) ==
  [j \in 1..(Len(s) - 1) |-> IF j <= i THEN s[j] ELSE s[j + 1]]

\* a copy loop that does not shift: every old entry stays at its index
CopyWithInsert_shiftless(children, insertion_idx, entry) ==
  [j \in 1..(Len(children) + 1) |->
     IF j = insertion_idx + 1 THEN entry
     ELSE IF j <= Len(children) THEN children[j] ELSE children[Len(children)]]

\* the copy loop of insert's Err arm: entry i goes to i, or to i + 1 from the
\* insertion point on, and the new entry to the insertion point
CopyWithInsert(children, insertion_idx, entry) ==
  [j \in 1..(Len(children) + 1) |->
     IF j = insertion_idx + 1 THEN entry
     ELSE IF j - 1 < insertion_idx THEN children[j] ELSE children[j - 1]]

\* an Ok arm that leaves the stored value as it is
SwapValue_lost(h, node_id, idx, value) == h

\* insert's Ok arm: mem::swap of the new value with the stored one
SwapValue(h, node_id, idx, value) ==
  [h EXCEPT !.nodes[node_id].children[idx + 1].value = value]

\* a replacement that keeps the old child and frees the new one
ReplaceChild_unswapped(h, node_id, idx, new_child_id) == free(h, new_child_id)

\* a replacement that frees the old child before the branch refers to the new
ReplaceChild_freefirst(h, node_id, idx, new_child_id) ==
  LET old == h.nodes[node_id].children[idx + 1].node_id
      freed == free(h, old)
  IN Logged([freed EXCEPT !.nodes[node_id].children[idx + 1].node_id = new_child_id],
            Replaced("ref", new_child_id, node_id, old))

\* mem::swap of branch.children[idx].node_id with the new child's id, then
\* ctx.free of the id swapped out
ReplaceChild(h, node_id, idx, new_child_id) ==
  LET old == h.nodes[node_id].children[idx + 1].node_id
      swapped == Logged([h EXCEPT !.nodes[node_id].children[idx + 1].node_id =
                                     new_child_id],
                        Replaced("ref", new_child_id, node_id, old))
  IN free(swapped, old)

\* BTree::insert / BTree::remove: mem::swap of self.root with the new root,
\* then ctx.free of the root swapped out
ReplaceRoot(h, root, new_root) ==
  free(Logged(h, Replaced("root", new_root, 0, root)), root)

RECURSIVE memtree_insert(_, _, _, _)
memtree_insert(h, node_id, key, value) ==
  LET node == h.nodes[node_id]
  IN IF node.tag = "Branch"
     THEN IF Len(node.children) = 0
          THEN LET a == alloc_leaf(h, 1)
               IN IF ~a.ok
                  THEN [ok |-> FALSE, h |-> h, new |-> None, old |-> None]
                  ELSE LET h1 == WriteChildren(a.h, a.id,
                                     <<[key |-> key, value |-> value]>>)
                           b == alloc_branch(h1, 1)
                       IN IF ~b.ok
                          THEN [ok |-> FALSE, h |-> h1, new |-> None, old |-> None]
                          ELSE [ok |-> TRUE,
                                h |-> WriteChildren(b.h, b.id,
                                        <<[interval |-> key, node_id |-> a.id]>>),
                                new |-> Some(b.id), old |-> None]
          ELSE LET idx == memtree_find_idx_from_interval(node.children, key).idx
                   child_node_id == node.children[idx + 1].node_id
                   r == memtree_insert(h, child_node_id, key, value)
               IN IF ~r.ok THEN r
                  ELSE IF r.new.some
                  THEN [ok |-> TRUE, h |-> ReplaceChild(r.h, node_id, idx, r.new.v),
                        new |-> None, old |-> r.old]
                  ELSE [ok |-> TRUE, h |-> r.h, new |-> None, old |-> r.old]
     ELSE LET s == LeafSearch(node.children, key)
          IN IF s.found
             THEN [ok |-> TRUE,
                   h |-> SwapValue(h, node_id, s.idx, value),
                   new |-> None,
                   old |-> Some(node.children[s.idx + 1].value)]
             ELSE LET a == alloc_leaf(h, Len(node.children) + 1)
                  IN IF ~a.ok
                     THEN [ok |-> FALSE, h |-> h, new |-> None, old |-> None]
                     ELSE [ok |-> TRUE,
                           h |-> WriteChildren(a.h, a.id,
                                   CopyWithInsert(node.children, s.idx,
                                                  [key |-> key, value |-> value])),
                           new |-> Some(a.id), old |-> None]

\* BTree::insert: the handle swaps in the new root and frees the old one
BTree_insert(h, root, key, value) ==
  LET r == memtree_insert(h, root, key, value)
  IN IF ~r.ok THEN [ok |-> FALSE, h |-> r.h, root |-> root, old |-> None]
     ELSE IF r.new.some
     THEN [ok |-> TRUE, h |-> ReplaceRoot(r.h, root, r.new.v), root |-> r.new.v,
           old |-> r.old]
     ELSE [ok |-> TRUE, h |-> r.h, root |-> root, old |-> r.old]

(***************************************************************************)
(* remove                                                                  *)
(***************************************************************************)
\* a remove that drops the last entry whatever idx is
Leaf_remove_noshift(h, node_id, idx) ==
  [h EXCEPT !.nodes[node_id].children = SubSeq(@, 1, Len(@) - 1),
            !.nodes[node_id].len = @ - 1,
            !.log = Append(@, Event("len", node_id, h.nodes[node_id].len - 1, 0, 0))]

\* Leaf::remove: the entries after idx shift down and header.len drops by one,
\* in place
Leaf_remove(h, node_id, idx) ==
  [h EXCEPT !.nodes[node_id].children = RemoveAt(@, idx),
            !.nodes[node_id].len = @ - 1,
            !.log = Append(@, Event("len", node_id, h.nodes[node_id].len - 1, 0, 0))]

RECURSIVE memtree_remove(_, _, _)
memtree_remove(h, node_id, key) ==
  LET node == h.nodes[node_id]
  IN IF node.tag = "Branch"
     THEN IF Len(node.children) = 0
          THEN [ok |-> TRUE, h |-> h, new |-> None, old |-> None]
          ELSE LET idx == memtree_find_idx_from_interval(node.children, key).idx
                   child_node_id == node.children[idx + 1].node_id
                   r == memtree_remove(h, child_node_id, key)
               IN [ok |-> r.ok, h |-> r.h, new |-> None, old |-> r.old]
     ELSE LET s == LeafSearch(node.children, key)
          IN IF s.found
             THEN [ok |-> TRUE, h |-> Leaf_remove(h, node_id, s.idx), new |-> None,
                   old |-> Some(node.children[s.idx + 1].value)]
             ELSE [ok |-> TRUE, h |-> h, new |-> None, old |-> None]

BTree_remove(h, root, key) ==
  LET r == memtree_remove(h, root, key)
  IN IF ~r.ok THEN [ok |-> FALSE, h |-> r.h, root |-> root, old |-> None]
     ELSE IF r.new.some
     THEN [ok |-> TRUE, h |-> ReplaceRoot(r.h, root, r.new.v), root |-> r.new.v,
           old |-> r.old]
     ELSE [ok |-> TRUE, h |-> r.h, root |-> root, old |-> r.old]


(***************************************************************************)
(* The in-memory tree (src/src/tree.rs).  A node is a Branch (intervals,   *)
(* children) or a Leaf (children: the entries).                            *)
(***************************************************************************)
MIN_ITEMS_IN_NODE == 2
MAX_ITEMS_IN_NODE == 4

Branch(intervals, children) ==
  [tag |-> "Branch", intervals |-> intervals, children |-> children]

Leaf(children) == [tag |-> "Leaf", intervals |-> <<>>, children |-> children]

\* the outcome of a call on a node: the node afterwards and what was returned,
\* or a panic
TR(node, ret) == [ok |-> TRUE, node |-> node, ret |-> ret]
TPanic(node) == [ok |-> FALSE, node |-> node, ret |-> None]

RECURSIVE find_idx_from_interval(_, _)
find_idx_from_interval(intervals, key) ==
  IF Len(intervals) = 0 THEN 0
  ELSE LET halfway == Len(intervals) \div 2
       IN IF key < intervals[halfway + 1]
          THEN find_idx_from_interval(Slice(intervals, 0, halfway), key)
          ELSE IF key = intervals[halfway + 1] THEN halfway + 1
          ELSE halfway + 1 + find_idx_from_interval(
                                Slice(intervals, halfway + 1, Len(intervals)), key)

\* children[idx] panics when idx is out of bounds
RECURSIVE BNode_get(_, _)
BNode_get(node, key) ==
  IF node.tag = "Branch"
  THEN LET idx == find_idx_from_interval(node.intervals, key)
       IN IF idx >= Len(node.children) THEN Panicked
          ELSE BNode_get(node.children[idx + 1], key)
  ELSE LET s == LeafSearch(node.children, key)
       IN IF s.found THEN Returned(Some(node.children[s.idx + 1].value))
          ELSE Returned(None)

\* get_mut, and the caller's write of val through the reference it returns
RECURSIVE BNode_get_mut(_, _, _)
BNode_get_mut(node, key, val) ==
  IF node.tag = "Branch"
  THEN LET idx == find_idx_from_interval(node.intervals, key)
       IN IF idx >= Len(node.children) THEN TPanic(node)
          ELSE LET r == BNode_get_mut(node.children[idx + 1], key, val)
               IN [ok |-> r.ok, ret |-> r.ret,
                   node |-> [node EXCEPT !.children[idx + 1] = r.node]]
  ELSE LET s == LeafSearch(node.children, key)
       IN IF s.found
          THEN TR([node EXCEPT !.children[s.idx + 1].value = val],
                  Some(node.children[s.idx + 1].value))
          ELSE TR(node, None)

\* first: the first entry of the first child, all the way down
RECURSIVE BNode_first(_)
BNode_first(node) ==
  IF Len(node.children) = 0 THEN None
  ELSE IF node.tag = "Branch" THEN BNode_first(node.children[1])
  ELSE Some(node.children[1])

BNode_len(node) == Len(node.children)

\* debug_validate_intervals: whether its assertions pass
debug_validate_intervals(node) ==
  \/ node.tag = "Leaf"
  \/ /\ Len(node.intervals) + 1 = Len(node.children)
     /\ \A i \in 1..Len(node.intervals) :
          /\ BNode_first(node.children[i + 1]).some
          /\ node.intervals[i] = BNode_first(node.children[i + 1]).v.key

\* a split that leaves one entry more in self
BNode_split_late(node, debug) ==
  LET halfway == Len(node.children) \div 2 + 1
  IN [ok |-> TRUE, self |-> [node EXCEPT !.children = Slice(@, 0, halfway)],
      new |-> [node EXCEPT !.children = Slice(@, halfway, Len(node.children)),
                           !.intervals = <<>>]]

\* split: self keeps the lower half, the upper half is returned
BNode_split(node, debug) ==
  IF node.tag = "Branch"
  THEN LET children_halfway == Len(node.children) \div 2
           interval_halfway == children_halfway - 1
       IN IF interval_halfway < 0 \/ interval_halfway >= Len(node.intervals)
          THEN [ok |-> FALSE, self |-> node, new |-> node]
          ELSE LET self == Branch(Slice(node.intervals, 0, interval_halfway),
                                  Slice(node.children, 0, children_halfway))
                   new == Branch(Slice(node.intervals, interval_halfway + 1,
                                       Len(node.intervals)),
                                 Slice(node.children, children_halfway,
                                       Len(node.children)))
               IN [ok |-> ~debug \/ debug_validate_intervals(self),
                   self |-> self, new |-> new]
  ELSE LET halfway == Len(node.children) \div 2
       IN [ok |-> TRUE, self |-> Leaf(Slice(node.children, 0, halfway)),
           new |-> Leaf(Slice(node.children, halfway, Len(node.children)))]

\* the step of insert after the child at idx took the entry: split the child
\* when it holds more than MAX_ITEMS_IN_NODE
SplitChild(node, idx, debug) ==
  IF BNode_len(node.children[idx + 1]) > MAX_ITEMS_IN_NODE
  THEN LET s == BNode_split(node.children[idx + 1], debug)
       IN IF \/ ~s.ok
             \/ (debug /\ ~debug_validate_intervals(s.new))
             \/ ~BNode_first(s.new).some
             \/ idx > Len(node.intervals)
          THEN TPanic(node)
          ELSE LET out == Branch(InsertAt(node.intervals, idx, BNode_first(s.new).v.key),
                                 InsertAt([node.children EXCEPT ![idx + 1] = s.self],
                                          idx + 1, s.new))
               IN IF debug /\ BNode_len(out.children[idx + 1]) > MAX_ITEMS_IN_NODE
                  THEN TPanic(node) ELSE TR(out, None)
  ELSE TR(node, None)

\* the last step of insert on a branch: split self when it holds more than
\* MAX_ITEMS_IN_NODE children, and become the parent of the two halves
SplitSelf(node, debug) ==
  IF Len(node.children) > MAX_ITEMS_IN_NODE
  THEN LET s == BNode_split(node, debug)
       IN IF \/ ~s.ok
             \/ (debug /\ ~debug_validate_intervals(s.new))
             \/ ~BNode_first(s.new).some
          THEN TPanic(node)
          ELSE TR(Branch(<<BNode_first(s.new).v.key>>, <<s.self, s.new>>), None)
  ELSE TR(node, None)

RECURSIVE BNode_insert(_, _, _, _)
BNode_insert(node, key, val, debug) ==
  IF node.tag = "Branch"
  THEN IF Len(node.children) = 0
       THEN TR([node EXCEPT !.children = <<Leaf(<<[key |-> key, value |-> val]>>)>>],
               None)
       ELSE LET idx == find_idx_from_interval(node.intervals, key)
            IN IF idx >= Len(node.children) THEN TPanic(node)
               ELSE LET r == BNode_insert(node.children[idx + 1], key, val, debug)
                        c == SplitChild([node EXCEPT !.children[idx + 1] = r.node],
                                        idx, debug)
                        s == SplitSelf(c.node, debug)
                    IN IF ~r.ok \/ ~c.ok \/ ~s.ok THEN TPanic(node)
                       ELSE TR(s.node, r.ret)
  ELSE LET s == LeafSearch(node.children, key)
       IN IF s.found
          THEN TR([node EXCEPT !.children[s.idx + 1].value = val],
                  Some(node.children[s.idx + 1].value))
          ELSE TR([node EXCEPT !.children =
                      InsertAt(@, s.idx, [key |-> key, value |-> val])], None)

\* merged: [ok, node]; the pair (Leaf, Branch) is todo!()
BNode_merged(self, other) ==
  LET other_first == BNode_first(other)
  IN IF ~other_first.some THEN [ok |-> TRUE, node |-> self]
     ELSE IF self.tag = "Branch" /\ other.tag = "Branch"
     THEN [ok |-> TRUE,
           node |-> Branch(self.intervals \o <<other_first.v.key>> \o other.intervals,
                           self.children \o other.children)]
     ELSE IF self.tag = "Branch" /\ other.tag = "Leaf"
     THEN [ok |-> TRUE,
           node |-> Branch(Append(self.intervals, other_first.v.key),
                           Append(self.children, other))]
     ELSE IF self.tag = "Leaf" /\ other.tag = "Branch"
     THEN [ok |-> FALSE, node |-> self]
     ELSE [ok |-> TRUE, node |-> Branch(<<other_first.v.key>>, <<self, other>>)]

\* the merge step of remove on a branch whose child at idx took the removal
MergeStep(node, idx) ==
  IF BNode_len(node.children[idx + 1]) < MIN_ITEMS_IN_NODE
  THEN IF idx > 0
       THEN LET m == BNode_merged(node.children[idx], node.children[idx + 1])
            IN IF ~m.ok \/ idx - 1 >= Len(node.intervals) THEN TPanic(node)
               ELSE TR(Branch(RemoveAt(node.intervals, idx - 1),
                              RemoveAt([node.children EXCEPT ![idx + 1] = m.node],
                                       idx - 1)), None)
       ELSE IF idx + 1 < Len(node.children)
       THEN LET m == BNode_merged(node.children[idx + 1], node.children[idx + 2])
            IN IF ~m.ok \/ idx >= Len(node.intervals) THEN TPanic(node)
               ELSE TR(Branch(RemoveAt(node.intervals, idx),
                              RemoveAt([node.children EXCEPT ![idx + 1] = m.node],
                                       idx + 1)), None)
       ELSE TR(node, None)
  ELSE TR(node, None)

\* the debug_assert! that ends the branch case of remove: whether it passes
RemoveAssert(node, idx) ==
  Len(node.children) > 1 =>
     /\ idx < Len(node.children)
     /\ BNode_len(node.children[idx + 1]) >= MIN_ITEMS_IN_NODE

RECURSIVE BNode_remove(_, _, _)
BNode_remove(node, key, debug) ==
  IF node.tag = "Branch"
  THEN IF Len(node.children) = 0 THEN TR(node, None)
       ELSE LET idx == find_idx_from_interval(node.intervals, key)
            IN IF idx >= Len(node.children) THEN TPanic(node)
               ELSE LET r == BNode_remove(node.children[idx + 1], key, debug)
                        m == MergeStep([node EXCEPT !.children[idx + 1] = r.node], idx)
                    IN IF ~r.ok \/ ~m.ok THEN TPanic(node)
                       ELSE IF debug /\ ~RemoveAssert(m.node, idx) THEN TPanic(node)
                       ELSE TR(m.node, r.ret)
  ELSE LET s == LeafSearch(node.children, key)
       IN IF s.found
          THEN TR([node EXCEPT !.children = RemoveAt(@, s.idx)],
                  Some(node.children[s.idx + 1].value))
          ELSE TR(node, None)

\* BTreeIter::next on a stack of frames (node, idx): the item and the stack
\* afterwards
RECURSIVE BTreeIter_next(_)
BTreeIter_next(stack) ==
  IF Len(stack) = 0 THEN [item |-> None, stack |-> stack]
  ELSE LET top == stack[Len(stack)]
           child_idx == top.idx
       IN IF child_idx < Len(top.node.children)
          THEN LET bumped == [stack EXCEPT ![Len(stack)].idx = child_idx + 1]
               IN IF top.node.tag = "Branch"
                  THEN BTreeIter_next(Append(bumped,
                          [node |-> top.node.children[child_idx + 1], idx |-> 0]))
                  ELSE [item |-> Some(top.node.children[child_idx + 1]),
                        stack |-> bumped]
          ELSE BTreeIter_next(SubSeq(stack, 1, Len(stack) - 1))

\* iter().collect(): next until it returns None
RECURSIVE IterCollect(_)
IterCollect(stack) ==
  LET n == BTreeIter_next(stack)
  IN IF n.item.some THEN <<n.item.v>> \o IterCollect(n.stack) ELSE <<>>

BTree_iter(root) == IterCollect(<<[node |-> root, idx |-> 0]>>)

(***************************************************************************)
(* The handle's operations as actions.                                     *)
(***************************************************************************)
MHeap == [free |-> mFree, nodes |-> mNodes, log |-> <<>>]

\* BTree::get of the current handle
MGet(key) == memtree_get(mNodes, mRoot, key)

\* what get answers for every key: the keys it panics on and the pairs it finds
MObserve ==
  LET g == [j \in MemKeys |-> MGet(j)]
  IN [panics |-> {j \in MemKeys : ~g[j].ok},
      held |-> [j \in {i \in MemKeys : g[i].ok /\ g[i].val.some} |-> g[j].val.v]]

NoObs == [panics |-> {}, held |-> EmptyMap]

\* a handle is usable until a call on it panics
MLive == mLast.ok

\* BNodeContext::new and BTree::new on a buffer of n units
BTree_new(n) ==
  LET h0 == [free |-> (0..(n - 1)) \ (0..(LockedHeapUnits - 1)),
             nodes |-> [o \in {} |-> 0],
             log |-> <<>>]
  IN alloc_branch(h0, 0)

MemInitOn(sizes) ==
  /\ mHeapSize \in sizes
  /\ BTree_new(mHeapSize).ok
  /\ mFree = BTree_new(mHeapSize).h.free
  /\ mNodes = BTree_new(mHeapSize).h.nodes
  /\ mRoot = BTree_new(mHeapSize).id
  /\ mRootRecord = 0
  /\ mModel = EmptyMap
  /\ mLast = [op |-> "new", key |-> 0, val |-> 0, ok |-> TRUE, ret |-> None,
              pre |-> NoObs, preFree |-> {}, preRoot |-> 0,
              log |-> BTree_new(mHeapSize).h.log]

MemInit == MemInitOn({SmallHeapUnits, BigHeapUnits})

MemInsertCall(k, v) ==
  /\ MLive
  /\ LET r == BTree_insert(MHeap, mRoot, k, v)
     IN /\ mFree' = r.h.free
        /\ mNodes' = r.h.nodes
        /\ mRoot' = r.root
        /\ mModel' = IF r.ok THEN MapPut(mModel, k, v) ELSE mModel
        /\ mLast' = [op |-> "insert", key |-> k, val |-> v, ok |-> r.ok,
                     ret |-> r.old, pre |-> MObserve,
                     preFree |-> IF r.ok THEN {} ELSE mFree,
                     preRoot |-> IF r.ok THEN 0 ELSE mRoot,
                     log |-> r.h.log]
  /\ UNCHANGED <<mHeapSize, mRootRecord>>

MemInsert(k, v) == MemInsertCall(k, v) /\ UNCHANGED <<tvars, fvars>>

MemRemoveCall(k) ==
  /\ MLive
  /\ LET r == BTree_remove(MHeap, mRoot, k)
     IN /\ mFree' = r.h.free
        /\ mNodes' = r.h.nodes
        /\ mRoot' = r.root
        /\ mModel' = IF r.ok THEN MapDel(mModel, k) ELSE mModel
        /\ mLast' = [op |-> "remove", key |-> k, val |-> 0, ok |-> r.ok,
                     ret |-> r.old, pre |-> MObserve,
                     preFree |-> IF r.ok THEN {} ELSE mFree,
                     preRoot |-> IF r.ok THEN 0 ELSE mRoot,
                     log |-> r.h.log]
  /\ UNCHANGED <<mHeapSize, mRootRecord>>

MemRemove(k) == MemRemoveCall(k) /\ UNCHANGED <<tvars, fvars>>

MemGet(k) ==
  /\ MLive
  /\ mLast' = [op |-> "get", key |-> k, val |-> 0, ok |-> MGet(k).ok,
               ret |-> MGet(k).val, pre |-> NoObs, preFree |-> {}, preRoot |-> 0,
               log |-> <<>>]
  /\ UNCHANGED <<mHeapSize, mFree, mNodes, mRoot, mRootRecord, mModel>>
  /\ UNCHANGED <<tvars, fvars>>

\* load(buffer): the handle whose root is the offset the buffer's root record
\* names; it fails when the record names no node
MemLoad ==
  /\ MLive
  /\ mLast.op # "load"
  /\ mRoot' = mRootRecord
  /\ mLast' = [op |-> "load", key |-> 0, val |-> 0,
               ok |-> mRootRecord \in DOMAIN mNodes, ret |-> None,
               pre |-> MObserve, preFree |-> {}, preRoot |-> mRoot, log |-> <<>>]
  /\ UNCHANGED <<mHeapSize, mFree, mNodes, mRootRecord, mModel>>
  /\ UNCHANGED <<tvars, fvars>>

(***************************************************************************)
(* The in-memory tree's operations as actions.                             *)
(***************************************************************************)
TGet(key) == BNode_get(tRoot, key)

TObserve ==
  LET g == [j \in TKeys |-> TGet(j)]
  IN [panics |-> {j \in TKeys : ~g[j].ok},
      held |-> [j \in {i \in TKeys : g[i].ok /\ g[i].val.some} |-> g[j].val.v]]

TNoObs == [panics |-> {}, held |-> EmptyMap]

\* the number of branch levels above the deepest leaf
RECURSIVE BNode_depth(_)
BNode_depth(node) ==
  IF node.tag = "Leaf" THEN 0
  ELSE IF Len(node.children) = 0 THEN 1
  ELSE 1 + Max({BNode_depth(node.children[i]) : i \in 1..Len(node.children)})

TLive == tLast.ok

\* BTree::new
tree_BTree_new == Branch(<<>>, <<>>)

TreeInitOn(builds) ==
  /\ tRoot = tree_BTree_new
  /\ tDebug \in builds
  /\ tModel = EmptyMap
  /\ tLast = [op |-> "new", key |-> 0, val |-> 0, ok |-> TRUE, ret |-> None,
              pre |-> TNoObs, out |-> <<>>,
              preRoot |-> <<>>]

TreeInit == TreeInitOn(BOOLEAN)

TreeInsertCall(k, v) ==
  /\ TLive
  /\ LET r == BNode_insert(tRoot, k, v, tDebug)
     IN /\ tRoot' = r.node
        /\ tModel' = IF r.ok THEN MapPut(tModel, k, v) ELSE tModel
        /\ tLast' = [op |-> "insert", key |-> k, val |-> v, ok |-> r.ok,
                     ret |-> r.ret, pre |-> TObserve, out |-> <<>>,
                     preRoot |-> tRoot]
  /\ UNCHANGED tDebug

TreeInsert(k, v) == TreeInsertCall(k, v) /\ UNCHANGED <<mvars, fvars>>

TreeRemoveCall(k) ==
  /\ TLive
  /\ LET r == BNode_remove(tRoot, k, tDebug)
     IN /\ tRoot' = r.node
        /\ tModel' = IF r.ok THEN MapDel(tModel, k) ELSE tModel
        /\ tLast' = [op |-> "remove", key |-> k, val |-> 0, ok |-> r.ok,
                     ret |-> r.ret, pre |-> TObserve, out |-> <<>>,
                     preRoot |-> tRoot]
  /\ UNCHANGED tDebug

TreeRemove(k) == TreeRemoveCall(k) /\ UNCHANGED <<mvars, fvars>>

TreeGet(k) ==
  /\ TLive
  /\ tLast' = [op |-> "get", key |-> k, val |-> 0, ok |-> TGet(k).ok,
               ret |-> TGet(k).val, pre |-> TNoObs, out |-> <<>>,
               preRoot |-> <<>>]
  /\ UNCHANGED <<tRoot, tDebug, tModel>>
  /\ UNCHANGED <<mvars, fvars>>

\* get_mut(k), and the write of v through the reference when there is one
TreeGetMut(k, v) ==
  /\ TLive
  /\ LET r == BNode_get_mut(tRoot, k, v)
     IN /\ tRoot' = r.node
        /\ tModel' = IF r.ok /\ r.ret.some THEN MapPut(tModel, k, v)
                     ELSE tModel
        /\ tLast' = [op |-> "get_mut", key |-> k, val |-> v, ok |-> r.ok,
                     ret |-> r.ret, pre |-> TObserve, out |-> <<>>,
                     preRoot |-> <<>>]
  /\ UNCHANGED tDebug
  /\ UNCHANGED <<mvars, fvars>>

\* iter().collect()
TreeIter ==
  /\ TLive
  /\ tLast' = [op |-> "iter", key |-> 0, val |-> 0, ok |-> TRUE, ret |-> None,
               pre |-> TNoObs, out |-> BTree_iter(tRoot),
               preRoot |-> <<>>]
  /\ UNCHANGED <<tRoot, tDebug, tModel>>
  /\ UNCHANGED <<mvars, fvars>>

vars == <<mvars, tvars, fvars>>

\* no child selection under way
FindIdle ==
  /\ fEntries = <<>>
  /\ fKey = 0
  /\ fOut = [done |-> FALSE, mem |-> 0, tree |-> 0]

MemNext ==
  \/ \E k \in MemKeys, v \in Vals : MemInsert(k, v)
  \/ \E k \in MemKeys : MemRemove(k)
  \/ \E k \in MemKeys : MemGet(k)
  \/ MemLoad

\* the buffer-backed tree alone
InitMem == MemInit /\ TreeInitOn({TRUE}) /\ FindIdle

SpecMem == InitMem /\ [][MemNext]_vars

\* the calls go on while the tree is at most MaxDepth levels deep
TreeBounded == BNode_depth(tRoot) <= MaxDepth

TreeNext ==
  \/ \E k \in TreeKeys, v \in Vals : TreeBounded /\ TreeInsert(k, v)
  \/ \E k \in TreeKeys : TreeBounded /\ TreeRemove(k)
  \/ \E k \in TreeKeys : TreeBounded /\ TreeGet(k)
  \/ \E k \in TreeKeys, v \in Vals : TreeBounded /\ TreeGetMut(k, v)
  \/ TreeBounded /\ TreeIter

\* the in-memory tree alone, any calls in any order
\* (a debug build, as the tests are)
InitTree == TreeInitOn({TRUE}) /\ MemInitOn({BigHeapUnits}) /\ FindIdle

SpecTree == InitTree /\ [][TreeNext]_vars

\* the in-memory tree as the tests drive it: keys inserted in ascending order,
\* each with itself as value, and then keys removed in any order, while more
\* than ScnMinLeft of them are left
ScnInsert ==
  /\ tLast.op \in {"new", "insert"}
  /\ \E k \in ScnKeySet :
       /\ DOMAIN tModel = {j \in ScnKeySet : j < k}
       /\ TreeInsert(k, k)

ScnRemove ==
  /\ Cardinality(DOMAIN tModel) > ScnMinLeft
  /\ \E k \in DOMAIN tModel : TreeRemove(k)

\* remove of a key that was not inserted or was removed already, while the
\* tree is at most ScnDepth levels deep
ScnRemoveAbsent ==
  /\ BNode_depth(tRoot) <= ScnDepth
  /\ \E k \in ScnKeySet \ DOMAIN tModel : TreeRemove(k)

ScnNext == ScnInsert \/ ScnRemove \/ ScnRemoveAbsent

\* (a debug or a release build)
InitScn == TreeInit /\ MemInitOn({BigHeapUnits}) /\ FindIdle

SpecScn == InitScn /\ [][ScnNext]_vars

(***************************************************************************)
(* The in-memory tree grown further: DeepKeys keys inserted in ascending   *)
(* order, and then keys removed while more than DeepMinLeft are left.      *)
(***************************************************************************)
DeepInsert ==
  /\ tLast.op \in {"new", "insert"}
  /\ \E k \in DeepKeySet :
       /\ DOMAIN tModel = {j \in DeepKeySet : j < k}
       /\ TreeInsert(k, k)

DeepRemove ==
  /\ Cardinality(DOMAIN tModel) > DeepMinLeft
  /\ \E k \in DOMAIN tModel : TreeRemove(k)

DeepNext == DeepInsert \/ DeepRemove

InitDeep == TreeInit /\ MemInitOn({BigHeapUnits}) /\ FindIdle

SpecDeep == InitDeep /\ [][DeepNext]_vars

(***************************************************************************)
(* Both trees given the same calls, as the paired tests give them: keys    *)
(* inserted in ascending order, each with itself as value, and then keys   *)
(* removed in any order, while more than ScnMinLeft of them are left.      *)
(***************************************************************************)
PairInsert ==
  /\ mLast.op \in {"new", "insert"}
  /\ \E k \in ScnKeySet :
       /\ DOMAIN mModel = {j \in ScnKeySet : j < k}
       /\ MemInsertCall(k, k)
       /\ TreeInsertCall(k, k)
  /\ UNCHANGED fvars

PairRemove ==
  /\ Cardinality(DOMAIN mModel) > ScnMinLeft
  /\ \E k \in DOMAIN mModel :
       /\ MemRemoveCall(k)
       /\ TreeRemoveCall(k)
  /\ UNCHANGED fvars

PairNext == PairInsert \/ PairRemove

InitPair == MemInitOn({PairHeapUnits}) /\ TreeInit /\ FindIdle

SpecPair == InitPair /\ [][PairNext]_vars

(***************************************************************************)
(* Child selection alone: one branch, one key, both functions applied.     *)
(***************************************************************************)
FindKeys == 0..FindMaxKey

RECURSIVE Ascending(_)
Ascending(S) ==
  IF S = {} THEN <<>>
  ELSE LET m == Min(S) IN <<m>> \o Ascending(S \ {m})

\* the entries of a branch whose first entry carries the key `sentinel` and
\* whose other entries carry the keys of S in ascending order
BranchEntries(sentinel, S) ==
  [i \in 1..(Cardinality(S) + 1) |->
     [interval |-> IF i = 1 THEN sentinel ELSE Ascending(S)[i - 1],
      node_id |-> i - 1]]

\* the in-memory branch of the same separators: intervals holds s[1..]
Intervals(entries) ==
  [i \in 1..(Len(entries) - 1) |-> entries[i + 1].interval]

InitFind ==
  /\ MemInitOn({BigHeapUnits})
  /\ TreeInitOn({TRUE})
  /\ fEntries \in {BranchEntries(z, S) : z \in FindKeys, S \in SUBSET FindKeys}
  /\ fKey \in FindKeys
  /\ fOut = [done |-> FALSE, mem |-> 0, tree |-> 0]

FindChild ==
  /\ ~fOut.done
  /\ fOut' = [done |-> TRUE,
              mem |-> memtree_find_idx_from_interval(fEntries, fKey).idx,
              tree |-> find_idx_from_interval(Intervals(fEntries), fKey)]
  /\ UNCHANGED <<fEntries, fKey, mvars, tvars>>

FindNext == FindChild

SpecFind == InitFind /\ [][FindNext]_vars

(***************************************************************************)
(* The claims.                                                             *)
(***************************************************************************)
\* the keys the buffer-backed tree holds, as get reports them
MKeysHeld == {j \in MemKeys : MGet(j).ok /\ MGet(j).val.some}

\* C1: buffer-backed tree: after an insert(k, v) that found the heap space it
\* needed, get(k) returns v, and get(j) of every other key j returns (it does
\* not panic) and returns what it returned before the insert.
C1_InsertThenGet ==
  (mLast.op = "insert" /\ mLast.ok) =>
     /\ MGet(mLast.key) = Returned(Some(mLast.val))
     /\ \A j \in MemKeys \ {mLast.key} :
          /\ MGet(j).ok
          /\ ObsGet(mLast.pre, j).ok => MGet(j) = ObsGet(mLast.pre, j)

\* C1's case: a new key was inserted in front of the two other keys the tree
\* already held
C1_Witness ==
  /\ mLast.op = "insert" /\ mLast.ok /\ ~mLast.ret.some
  /\ mLast.key = 0
  /\ MKeysHeld = MemKeys
  /\ \A j \in MemKeys \ {0} : ObsGet(mLast.pre, j).val.some

\* C2: buffer-backed tree: when k is mapped to v1, insert(k, v2) returns
\* Some(v1), get(k) then returns v2, and the tree holds the same keys as before.
C2_InsertOverwrites ==
  (mLast.op = "insert" /\ ObsGet(mLast.pre, mLast.key).ok /\ ObsGet(mLast.pre, mLast.key).val.some) =>
     /\ mLast.ok
     /\ mLast.ret = ObsGet(mLast.pre, mLast.key).val
     /\ MGet(mLast.key) = Returned(Some(mLast.val))
     /\ MKeysHeld = {j \in MemKeys : ObsGet(mLast.pre, j).val.some}

\* C2's case: a key mapped to one value was inserted again with another one
C2_Witness ==
  /\ mLast.op = "insert" /\ mLast.ok
  /\ mLast.ret.some /\ mLast.ret.v # mLast.val
  /\ Cardinality(MKeysHeld) > 1

\* C3: buffer-backed tree: get(k) on a tree that holds no keys, just created
\* or with all its keys removed, returns absent and never fails.
C3_GetOnEmptyTree ==
  (mLast.op = "get" /\ mModel = EmptyMap) =>
     mLast.ok /\ mLast.ret = None

\* C4: buffer-backed tree: remove(k) of a key the tree holds returns Some of
\* its value; afterwards get(k) returns absent and get of every other key
\* returns what it returned before, which is the value inserted for it if it
\* was not removed and absent if it was.
C4_RemoveThenGet ==
  (mLast.op = "remove" /\ ObsGet(mLast.pre, mLast.key).ok /\ ObsGet(mLast.pre, mLast.key).val.some) =>
     /\ mLast.ok
     /\ mLast.ret = ObsGet(mLast.pre, mLast.key).val
     /\ MGet(mLast.key) = Returned(None)
     /\ \A j \in MemKeys \ {mLast.key} : MGet(j) = ObsGet(mLast.pre, j)
     /\ \A j \in MemKeys : MGet(j) = Returned(MapGet(mModel, j))

\* C4's case: of three keys inserted, one was removed before and now the
\* first of the two left is removed
C4_Witness ==
  /\ mLast.op = "remove" /\ mLast.ok /\ mLast.ret.some
  /\ Cardinality(MKeysHeld) = 1
  /\ \E j \in MKeysHeld : j > mLast.key
  /\ \E j \in MemKeys : j < mLast.key

\* C5: in-memory tree: every remove(k) completes and returns the value k was
\* associated with (None if there was none); afterwards get(k) returns None
\* and get of every key inserted and not removed returns its value.
C5_TreeRemove ==
  (tLast.op = "remove" /\ ObsGet(tLast.pre, tLast.key).ok) =>
     /\ tLast.ok
     /\ tLast.ret = ObsGet(tLast.pre, tLast.key).val
     /\ \A j \in TKeys : TGet(j) = Returned(MapGet(tModel, j))

\* C6: round trip: load on the bytes of the buffer yields a tree that holds
\* the same key-value pairs as the tree did.
C6_LoadRoundTrip ==
  mLast.op = "load" =>
     /\ mLast.ok
     /\ \A j \in MemKeys : MGet(j) = ObsGet(mLast.pre, j)

\* C7: buffer-backed tree: an insert that the heap cannot serve leaves the tree
\* as it was: the same root, the same key-value pairs, and nothing allocated
\* that was not allocated before.
C7_FailedInsertLeavesTree ==
  (mLast.op = "insert" /\ ~mLast.ok) =>
     /\ mRoot = mLast.preRoot
     /\ \A j \in MemKeys : MGet(j) = ObsGet(mLast.pre, j)
     /\ mFree = mLast.preFree

\* the entries of the map the calls describe, in ascending key order
RECURSIVE ModelEntries(_)
ModelEntries(keys) ==
  IF keys = {} THEN <<>>
  ELSE LET k == Min(keys)
       IN <<[key |-> k, value |-> tModel[k]]>> \o ModelEntries(keys \ {k})

\* C8: in-memory tree: after any inserts and removes, iter() yields each key
\* the tree holds once, with its value, in ascending key order, and ends.
C8_IterAscendingExact ==
  tLast.ok => BTree_iter(tRoot) = ModelEntries(DOMAIN tModel)

\* C9: in-memory tree: get_mut(k) of a key present gives the stored value, and
\* a write through it makes get(k) return the value written and changes no
\* other key; get_mut of an absent key returns None.
C9_GetMutWrites ==
  tLast.op = "get_mut" =>
     /\ tLast.ok
     /\ IF ObsGet(tLast.pre, tLast.key).ok /\ ObsGet(tLast.pre, tLast.key).val.some
        THEN /\ tLast.ret = ObsGet(tLast.pre, tLast.key).val
             /\ TGet(tLast.key) = Returned(Some(tLast.val))
             /\ \A j \in TKeys \ {tLast.key} : TGet(j) = ObsGet(tLast.pre, j)
        ELSE tLast.ret = None

\* the depths at which the leaves under a node lie
RECURSIVE LeafDepths(_)
LeafDepths(node) ==
  IF node.tag = "Leaf" THEN {0}
  ELSE UNION {{d + 1 : d \in LeafDepths(node.children[i])} :
                i \in 1..Len(node.children)}

\* C10: in-memory tree: after every insert and every remove, all leaves are at
\* the same depth from the root.
C10_LeavesAtEqualDepth ==
  (tLast.ok /\ tLast.op \in {"insert", "remove"}) =>
     Cardinality(LeafDepths(tRoot)) <= 1

\* C11: buffer-backed tree: after every insert and every remove, every node
\* other than the root branch holds between MIN = 2 and MAX = 4 entries.
C11_NonRootNodeSizes ==
  (mLast.op \in {"insert", "remove"} /\ mLast.ok) =>
     \A o \in (DOMAIN mNodes) \ {mRoot} :
        /\ mNodes[o].len >= MIN_ITEMS_IN_NODE
        /\ mNodes[o].len <= MAX_ITEMS_IN_NODE

\* the leaves written in the buffer
MLeaves == {o \in DOMAIN mNodes : mNodes[o].tag = "Leaf"}

\* C13: buffer-backed tree: between operations the entries of every leaf are
\* strictly ascending by key (so no key occurs twice), and they are as many as
\* the header says.
C13_LeafEntriesAscending ==
  \A o \in MLeaves :
     /\ Len(mNodes[o].children) = mNodes[o].len
     /\ \A i \in 1..(Len(mNodes[o].children) - 1) :
          mNodes[o].children[i].key < mNodes[o].children[i + 1].key

\* the steps of the last operation that freed a node
MFrees == {i \in 1..Len(mLast.log) : mLast.log[i].ev = "free"}

\* C13's case: a key was inserted between two others into a leaf that had an
\* entry removed in place since it was allocated
C13_Witness ==
  /\ mLast.op = "insert" /\ mLast.ok /\ ~mLast.ret.some
  /\ \E o \in MLeaves :
       /\ mNodes[o].len = 3
       /\ mNodes[o].children[2].key = mLast.key
  /\ \E i \in MFrees : mLast.log[i].size < mLast.log[i].asize

\* the nodes reachable from node_id through the child identifiers
RECURSIVE MReach(_, _)
MReach(nodes, node_id) ==
  IF node_id \notin DOMAIN nodes THEN {}
  ELSE IF nodes[node_id].tag = "Leaf" THEN {node_id}
  ELSE {node_id} \cup
       UNION {MReach(nodes, nodes[node_id].children[i].node_id) :
                i \in 1..Len(nodes[node_id].children)}

\* the branch entries: (branch, index) pairs
MBranchEntries ==
  UNION {{<<o, i>> : i \in 1..Len(mNodes[o].children)} :
           o \in {b \in DOMAIN mNodes : mNodes[b].tag = "Branch"}}

\* C14: buffer-backed tree: between operations, the nodes allocated and not
\* freed are exactly the nodes reachable from the root, no node is the child of
\* two branch entries, and no operation frees a node that is not allocated at
\* the time (never allocated, or freed already).
C14_AllocatedIsReachable ==
  mLast.op # "load" =>
     /\ DOMAIN mNodes = MReach(mNodes, mRoot)
     /\ \A e1, e2 \in MBranchEntries :
          e1 # e2 => mNodes[e1[1]].children[e1[2]].node_id #
                     mNodes[e2[1]].children[e2[2]].node_id
     /\ \A i \in MFrees : mLast.log[i].at = 1

\* the steps of the last operation that set a reference to a replacement node
MSwaps == {i \in 1..Len(mLast.log) : mLast.log[i].ev \in {"ref", "root"}}

\* the child identifiers of all branches in the buffer
MChildIds ==
  {mNodes[e[1]].children[e[2]].node_id : e \in MBranchEntries}

\* C15: buffer-backed tree: when an operation replaces a node, the replacement
\* is allocated and then written, then the reference to the old node (the
\* parent's child identifier or the handle's root) is set to it, and only then
\* is the old node freed; every free is the last step of such a replacement,
\* and after the operation neither the root nor a child identifier names a
\* freed node.
C15_ReplaceOrder ==
  /\ \A p \in MFrees :
       \E q \in MSwaps :
          /\ q < p
          /\ mLast.log[q].old = mLast.log[p].id
          /\ \E a, w \in 1..Len(mLast.log) :
               /\ a < w /\ w < q
               /\ mLast.log[a].ev = "alloc" /\ mLast.log[a].id = mLast.log[q].id
               /\ mLast.log[w].ev = "write" /\ mLast.log[w].id = mLast.log[q].id
  /\ \A q \in MSwaps :
       \E p \in MFrees : q < p /\ mLast.log[p].id = mLast.log[q].old
  /\ mLast.op # "load" =>
       /\ mRoot \in DOMAIN mNodes
       /\ MChildIds \subseteq DOMAIN mNodes

\* C15's case: an insert replaced the leaf under the root branch
C15_Witness ==
  /\ mLast.op = "insert" /\ mLast.ok
  /\ \E q \in MSwaps : mLast.log[q].ev = "ref"
  /\ MFrees # {}

\* C16: buffer-backed tree: whenever a node is freed, the size derived from
\* its header at the time of the free equals the size it was allocated with.
C16_FreeSizeIsAllocSize ==
  \A p \in MFrees : mLast.log[p].size = mLast.log[p].asize

\* C17: buffer-backed tree: an operation that changes the number of entries of
\* a node (a remove of a present key, an insert of a new key) allocates a
\* replacement node, sets the reference to it and frees the old node; no step
\* changes the entry count of an existing node in place.
C17_CountChangesByReplacement ==
  /\ \A i \in 1..Len(mLast.log) : mLast.log[i].ev # "len"
  /\ ( \/ (mLast.op = "remove" /\ mLast.ok /\ mLast.ret.some)
       \/ (mLast.op = "insert" /\ mLast.ok /\ ~mLast.ret.some) ) =>
        /\ \E i \in 1..Len(mLast.log) : mLast.log[i].ev = "alloc"
        /\ MSwaps # {}
        /\ MFrees # {}

\* the keys stored in the leaves of the subtree of node
RECURSIVE SubtreeKeys(_)
SubtreeKeys(node) ==
  IF node.tag = "Leaf" THEN {node.children[i].key : i \in 1..Len(node.children)}
  ELSE UNION {SubtreeKeys(node.children[i]) : i \in 1..Len(node.children)}

\* in every branch of the subtree of node the separators are strictly
\* ascending and separator i is the least key under child i + 1
RECURSIVE ValidSeparators(_)
ValidSeparators(node) ==
  node.tag = "Branch" =>
     /\ \A i \in 1..(Len(node.intervals) - 1) : node.intervals[i] < node.intervals[i + 1]
     /\ \A i \in 1..Len(node.intervals) :
          /\ i + 1 <= Len(node.children)
          /\ SubtreeKeys(node.children[i + 1]) # {}
          /\ node.intervals[i] = Min(SubtreeKeys(node.children[i + 1]))
     /\ \A i \in 1..Len(node.children) : ValidSeparators(node.children[i])

\* C12: in-memory tree: after every insert and every remove, in every branch
\* the separators are strictly ascending and separator i equals the least key
\* stored in the subtree of child i + 1.
C12_SeparatorsAreMinKeys ==
  (tLast.op \in {"insert", "remove"} /\ tLast.ok) => ValidSeparators(tRoot)

\* C18: in-memory tree: remove(k) of a key that is not in the tree returns None
\* and leaves the tree as it was: the same nodes, separators and entries.
C18_RemoveAbsentUnchanged ==
  [][(tvars' # tvars /\ tLast'.op = "remove" /\ tLast'.key \notin SubtreeKeys(tRoot)) =>
       (tLast'.ok /\ ~tLast'.ret.some /\ tRoot' = tRoot)]_vars

\* the largest i >= 1 with s[i] <= key, or 0 when there is none; entries[i + 1]
\* is the entry s[i]
LargestAtMost(entries, key) ==
  LET le == {i \in 1..(Len(entries) - 1) : entries[i + 1].interval <= key}
  IN IF le = {} THEN 0 ELSE Max(le)

\* C19: find_idx_from_interval on a branch with at least one entry and strictly
\* ascending real separators selects the largest i >= 1 with s[i] <= key, or 0
\* when no real separator is <= key; a key equal to a separator selects that
\* separator's child; the result is the same whatever the sentinel s[0] is; the
\* buffer-backed and the in-memory function select the same index.
C19_ChildSelection ==
  fOut.done =>
     /\ fOut.mem = LargestAtMost(fEntries, fKey)
     /\ fOut.tree = fOut.mem
     /\ \A i \in 1..(Len(fEntries) - 1) :
          fEntries[i + 1].interval = fKey => fOut.mem = i
     /\ Len(fEntries) = 1 => fOut.mem = 0
     /\ \A z \in FindKeys :
          memtree_find_idx_from_interval(
             [fEntries EXCEPT ![1].interval = z], fKey).idx = fOut.mem

\* a key equal to the second of three separators, under a sentinel above it
C19_Witness ==
  /\ fOut.done
  /\ Len(fEntries) = 4
  /\ fEntries[3].interval = fKey
  /\ fEntries[1].interval > fKey
  /\ fOut.mem = 2

\* C20: the buffer-backed tree, on a buffer with room for every node, and the
\* in-memory tree are observationally equivalent: the same insert or remove
\* call on both returns the same result, and afterwards get returns the same
\* result on both for every key.
C20_ObservationallyEquivalent ==
  (mLast.op \in {"insert", "remove"} /\ tLast.op = mLast.op /\ tLast.key = mLast.key) =>
     /\ mLast.ok
     /\ tLast.ok
     /\ tLast.ret = mLast.ret
     /\ \A k \in ScnKeySet : TGet(k) = MGet(k)

\* the buffer of SpecPair has room for every node the calls allocate
PairHeapEnough == mLast.ok

\* the one node the claim has two siblings become: the kind of the two, the
\* entries of the left one followed by the entries of the right one
Concatenated(left, right, sep) ==
  IF left.tag = "Leaf" THEN Leaf(left.children \o right.children)
  ELSE Branch(left.intervals \o <<sep>> \o right.intervals,
              left.children \o right.children)

\* whether remove(key), which turned the branch pre into post, merged as the
\* claim says, here and in every branch the key was routed through
RECURSIVE MergedAsSpecified(_, _, _)
MergedAsSpecified(pre, post, key) ==
  \/ pre.tag = "Leaf"
  \/ Len(pre.children) = 0
  \/ LET idx == find_idx_from_interval(pre.intervals, key)
         child == pre.children[idx + 1]
         after == BNode_remove(child, key, FALSE).node
         l == IF idx > 0 THEN idx ELSE idx + 1
         kids == [pre.children EXCEPT ![idx + 1] = after]
     IN /\ MergedAsSpecified(child, after, key)
        /\ (BNode_len(after) < MIN_ITEMS_IN_NODE /\ Len(pre.children) > 1) =>
              /\ Len(post.children) = Len(pre.children) - 1
              /\ post.intervals = RemoveAt(pre.intervals, l - 1)
              /\ kids[l].tag = kids[l + 1].tag
              /\ post.children =
                   RemoveAt([kids EXCEPT ![l] = Concatenated(kids[l], kids[l + 1],
                                                            pre.intervals[l])], l)

\* C21: in-memory tree: when a remove leaves a child with fewer than
\* MIN_ITEMS_IN_NODE entries and the child has a sibling, the child and one
\* sibling (the left one if there is one, otherwise the right one) are replaced
\* by one node of the same kind whose entries are the two nodes' entries
\* concatenated, the separator between them is dropped from the parent, and the
\* parent has exactly one child less.
C21_MergeConcatenates ==
  [][(tvars' # tvars /\ tLast'.op = "remove" /\ tLast'.ok) =>
       MergedAsSpecified(tRoot, tRoot', tLast'.key)]_vars

\* the branch pre after the leaf at idx, which holds `entries`, was split as
\* the claim says
LeafSplitWanted(pre, idx, entries) ==
  LET m == (MAX_ITEMS_IN_NODE + 1) \div 2
      left == Leaf(Slice(entries, 0, m))
      right == Leaf(Slice(entries, m, Len(entries)))
  IN Branch(InsertAt(pre.intervals, idx, right.children[1].key),
            InsertAt([pre.children EXCEPT ![idx + 1] = left], idx + 1, right))

\* whether insert(key, val) on the branch pre, which made it post (ok: without
\* a panic), split the leaf it filled as the claim says
RECURSIVE LeafSplitAsSpecified(_, _, _, _, _, _)
LeafSplitAsSpecified(pre, post, ok, key, val, debug) ==
  \/ pre.tag = "Leaf"
  \/ Len(pre.children) = 0
  \/ LET idx == find_idx_from_interval(pre.intervals, key)
         child == pre.children[idx + 1]
         r == BNode_insert(child, key, val, debug)
         want == LeafSplitWanted(pre, idx, r.node.children)
     IN IF child.tag = "Branch"
        THEN LeafSplitAsSpecified(child, r.node, r.ok, key, val, debug)
        ELSE Len(r.node.children) = MAX_ITEMS_IN_NODE + 1 =>
               /\ SplitChild([pre EXCEPT !.children[idx + 1] = r.node], idx, debug)
                    = TR(want, None)
               /\ Len(want.children) = Len(pre.children) + 1
               /\ want.intervals[idx + 1] = r.node.children[3].key
               /\ ok => IF Len(want.children) <= MAX_ITEMS_IN_NODE
                        THEN post = want
                        ELSE /\ Len(post.children) = 2
                             /\ post.children[1].children \o post.children[2].children
                                  = want.children

\* C22: in-memory tree: when an insert makes a leaf hold MAX_ITEMS_IN_NODE + 1
\* = 5 entries, the leaf is split at m = 2: the leaf keeps entries [0, m), a new
\* leaf takes entries [m, len) and is placed right after it in the parent, the
\* separator added to the parent is the first key of the new leaf, and the
\* parent has exactly one child more.
C22_LeafSplit ==
  tLast.op = "insert" =>
     LeafSplitAsSpecified(tLast.preRoot, tRoot, tLast.ok, tLast.key, tLast.val,
                          tDebug)

\* the key 2 put between the four entries of the only leaf
C22_Witness ==
  /\ tLast.op = "insert"
  /\ tLast.ok
  /\ tLast.key = 2
  /\ Len(tLast.preRoot.children) = 1
  /\ tLast.preRoot.children[1].tag = "Leaf"
  /\ Len(tLast.preRoot.children[1].children) = MAX_ITEMS_IN_NODE
  /\ DOMAIN tLast.pre.held = {0, 1, 3, 4}
  /\ tRoot.intervals = <<2>>
  /\ Len(tRoot.children) = 2
  /\ Len(tRoot.children[1].children) = 2
  /\ Len(tRoot.children[2].children) = 3

\* no node of the subtree holds more than MAX_ITEMS_IN_NODE entries or children
RECURSIVE WithinMax(_)
WithinMax(node) ==
  /\ Len(node.children) <= MAX_ITEMS_IN_NODE
  /\ node.tag = "Branch" =>
        \A i \in 1..Len(node.children) : WithinMax(node.children[i])

\* whether the debug_assert! that follows the split step of insert passes in
\* every branch insert(key, val) is routed through
RECURSIVE InsertAssertHolds(_, _, _)
InsertAssertHolds(pre, key, val) ==
  \/ pre.tag = "Leaf"
  \/ Len(pre.children) = 0
  \/ LET idx == find_idx_from_interval(pre.intervals, key)
         r == BNode_insert(pre.children[idx + 1], key, val, FALSE)
         c == SplitChild([pre EXCEPT !.children[idx + 1] = r.node], idx, FALSE)
     IN /\ InsertAssertHolds(pre.children[idx + 1], key, val)
        /\ (r.ok /\ c.ok) =>
              BNode_len(c.node.children[idx + 1]) <= MAX_ITEMS_IN_NODE

\* C23: in-memory tree: after every insert and every remove no node, leaf or
\* branch, the root included, holds more than MAX_ITEMS_IN_NODE = 4 entries or
\* children, and the assertion that the child inserted into holds at most
\* MAX_ITEMS_IN_NODE entries never fails.
C23_NodesWithinMax ==
  /\ (tLast.op \in {"insert", "remove"} /\ tLast.ok) => WithinMax(tRoot)
  /\ tLast.op = "insert" => InsertAssertHolds(tLast.preRoot, tLast.key, tLast.val)

\* whether the condition of the debug_assert! that ends the branch case of
\* remove holds, with a valid index, in every branch remove(key) is routed
\* through
RECURSIVE RemoveAssertHolds(_, _)
RemoveAssertHolds(pre, key) ==
  \/ pre.tag = "Leaf"
  \/ Len(pre.children) = 0
  \/ LET idx == find_idx_from_interval(pre.intervals, key)
         r == BNode_remove(pre.children[idx + 1], key, FALSE)
         m == MergeStep([pre EXCEPT !.children[idx + 1] = r.node], idx)
     IN /\ RemoveAssertHolds(pre.children[idx + 1], key)
        /\ (r.ok /\ m.ok) => RemoveAssert(m.node, idx)

\* C24: in-memory tree: when remove on a branch has finished its merge step and
\* the branch still has more than one child, the index idx the key was routed
\* to is still a valid child index and the child at idx holds at least
\* MIN_ITEMS_IN_NODE = 2 entries, so the assertion that ends the branch case of
\* remove never fails.
C24_RemoveAssertHolds ==
  tLast.op = "remove" =>
     /\ RemoveAssertHolds(tLast.preRoot, tLast.key)
     /\ tDebug => (tLast.ok \/ ~BNode_remove(tLast.preRoot, tLast.key, FALSE).ok)

\* the root of the buffer-backed tree has one entry, and its child is a leaf
\* that holds the keys and values of the tree and nothing else
MOneLeaf ==
  /\ mNodes[mRoot].len = 1
  /\ LET leaf == mNodes[mNodes[mRoot].children[1].node_id]
     IN /\ leaf.tag = "Leaf"
        /\ leaf.len = Cardinality(DOMAIN mModel)
        /\ Len(leaf.children) = leaf.len
        /\ {leaf.children[i].key : i \in 1..Len(leaf.children)} = DOMAIN mModel
        /\ \A i \in 1..Len(leaf.children) :
             leaf.children[i].value = mModel[leaf.children[i].key]

\* C25: buffer-backed tree: between calls the root is a branch with at most one
\* entry; once a key has been inserted the root has exactly one entry, whose
\* child is one leaf that holds all the keys of the tree, so the height never
\* grows and the leaf has as many entries as the tree has keys.
C25_RootOverOneLeaf ==
  /\ [](mLast.op # "load" =>
          /\ mNodes[mRoot].tag = "Branch"
          /\ Len(mNodes[mRoot].children) = mNodes[mRoot].len
          /\ mNodes[mRoot].len <= 1
          /\ (mNodes[mRoot].len = 1 \/ mModel # EmptyMap
                \/ (mLast.op = "insert" /\ mLast.ok)) => MOneLeaf)
  /\ [][(mLast'.op # "load" /\ mNodes[mRoot].len = 1) => mNodes'[mRoot'].len = 1]_vars

\* every key removed again: the root keeps its entry over the empty leaf
C25_Witness ==
  /\ mLast.op = "remove"
  /\ mLast.ok
  /\ mLast.ret.some
  /\ mModel = EmptyMap
  /\ mNodes[mRoot].len = 1
  /\ mNodes[mNodes[mRoot].children[1].node_id].len = 0

====
